---- MODULE Spec2Model ----
(***************************************************************************)
(* Laplace-approximation Gaussian-process classifier GPClassifier          *)
(* (src/ml1_mnist/gp/_gp.py): the fit life cycle (covariance cache, Newton *)
(* loop, convergence test, stored posterior) and the Monte-Carlo           *)
(* predictive engine (per-row mean/covariance, the shared seeded           *)
(* generator self.rng).                                                    *)
(*                                                                         *)
(* Numbers.  Reals are modelled by exact rationals <<num, den>> in lowest  *)
(* terms.  The results of the numerical kernels the code calls (cholesky,  *)
(* solve_triangular, cg, the matrix products of the Newton update, log)    *)
(* are inputs drawn from small sets: the new latent matrix f, the          *)
(* correction vectors e_c and the approximate LML of each Newton step.     *)
(* softmax is computed (base 2 instead of base e, which keeps every        *)
(* structural property: rows sum to 1, invariance under a row shift,       *)
(* injectivity up to that shift).  The kernel is an integer-valued         *)
(* stationary kernel standing for the external get_kernel collaborator.    *)
(* A Monte-Carlo estimate is the term (mu, Sigma, seed, position in the    *)
(* generator's stream): two estimates are equal when they are computed     *)
(* from the same mean, covariance and stream segment.                      *)
(***************************************************************************)
EXTENDS Integers, Sequences, FiniteSets, TLC

(* ------------------------------ bounds --------------------------------- *)
\* largest max_iter a model is configured with
MaxIter == 3
\* fit calls per behaviour
MaxFits == 2
\* set_params calls per behaviour
MaxSets == 1
\* approximate LML values a Newton step can produce: 0..MaxLml
MaxLml == 1
\* largest tol a model is configured with
MaxTol == 1
\* latent margin of the labelled class a Newton step can produce: 0..MaxF
MaxF == 1
\* entries of a correction vector e_c: 1..MaxE
MaxE == 2
\* rows of a prediction batch
MaxBatch == 2
\* predict_proba / predict calls per behaviour
MaxCalls == 3

(* ------------------------- program constants --------------------------- *)
\* the floor 1e-8 of np.maximum(sum(self._e), 1e-8 * ones) is 1 / FloorDen
FloorDen == 100000000

None == <<>>
Some(v) == <<v>>

\* n = 2 training samples, C = 2 classes
Samples == {1, 2}
Classes == {1, 2}

(* ----------------------------- rationals ------------------------------- *)
Abs(a) == IF a < 0 THEN -a ELSE a

\* the greatest common divisor of p[1] and p[2]
GCD[p \in Nat \X Nat] == IF p[2] = 0 THEN p[1] ELSE GCD[<<p[2], p[1] % p[2]>>]

\* the fraction p[1] / p[2] in lowest terms, with a positive denominator
Lowest[p \in Int \X Int] ==
    LET g == GCD[<<Abs(p[1]), Abs(p[2])>>]
        s == IF p[2] < 0 THEN -1 ELSE 1
    IN  <<(s * p[1]) \div g, (s * p[2]) \div g>>

Rat(n, d) == Lowest[<<n, d>>]
RInt(n) == <<n, 1>>
Rationals == Int \X Int

RAddF[a \in Rationals \X Rationals] ==
    Rat(a[1][1] * a[2][2] + a[2][1] * a[1][2], a[1][2] * a[2][2])
RSubF[a \in Rationals \X Rationals] ==
    Rat(a[1][1] * a[2][2] - a[2][1] * a[1][2], a[1][2] * a[2][2])
RMulF[a \in Rationals \X Rationals] == Rat(a[1][1] * a[2][1], a[1][2] * a[2][2])
RDivF[a \in Rationals \X Rationals] == Rat(a[1][1] * a[2][2], a[1][2] * a[2][1])
RMaxF[a \in Rationals \X Rationals] ==
    IF a[1][1] * a[2][2] < a[2][1] * a[1][2] THEN a[2] ELSE a[1]

RAdd(p, q) == RAddF[<<p, q>>]
RSub(p, q) == RSubF[<<p, q>>]
RMul(p, q) == RMulF[<<p, q>>]
RDiv(p, q) == RDivF[<<p, q>>]
RMax(p, q) == RMaxF[<<p, q>>]

\* the sum of the rationals t[1], ..., t[n]
RSumTo(t, n) ==
    LET acc[k \in 0..n] == IF k = 0 THEN RInt(0) ELSE RAdd(acc[k - 1], t[k])
    IN  acc[n]

\* the sum of the entries of the vector t
RSum(t) == RSumTo(t, Cardinality(DOMAIN t))

RECURSIVE TwoPow(_)
TwoPow(k) == IF k = 0 THEN 1 ELSE 2 * TwoPow(k - 1)

SetMax(S) == CHOOSE m \in S : \A k \in S : k <= m

(* --------------------------- collaborators ----------------------------- *)
\* kernel(a, b) for two points: sigma^2 * max(0, 3 - |a - b|)
KernelVal(sigma, a, b) ==
    sigma * sigma * (IF Abs(a - b) >= 3 THEN 0 ELSE 3 - Abs(a - b))

\* softmax of one row, subtracting the row maximum before exponentiating
SoftmaxRow(r) ==
    LET m == SetMax({r[c] : c \in Classes})
        ex == [c \in Classes |-> Rat(1, TwoPow(m - r[c]))]
        z == RSum(ex)
    IN  [c \in Classes |-> RDiv(ex[c], z)]

\* SoftmaxRow, tabulated over the rows a latent matrix can hold
SoftmaxTable == [r \in [Classes -> 0..MaxF] |-> SoftmaxRow(r)]

\* softmax, row-wise
Softmax(f) == [i \in DOMAIN f |-> SoftmaxTable[f[i]]]

(* ------------------------------ inputs --------------------------------- *)
\* training sets: two one-dimensional points each
TrainingSets == {<<0, 1>>, <<0, 2>>}
\* one-hot labels: sample 1 is of class 1, sample 2 of class 2
OneHot(labels) == [i \in DOMAIN labels |-> [c \in Classes |-> IF labels[i] = c THEN 1 ELSE 0]]
LabelSets == {OneHot(<<1, 2>>)}

Algorithms == {"exact", "cg", "lu"}
SigmaNs == {-1, 0, 1}
KernelSigmas == {1}
MaxIters == 1..MaxIter
Tols == 1..MaxTol
Seeds == {None, Some(7)}

ParamSpace ==
    [kernel_sigma : KernelSigmas, sigma_n : SigmaNs, max_iter : MaxIters,
     tol : Tols, algorithm : Algorithms, random_seed : {Some(7)}]

\* what one set_params(key=value) call can set
Settings ==
    {<<"sigma_n", v>> : v \in SigmaNs} \cup {<<"max_iter", v>> : v \in MaxIters}
    \cup {<<"algorithm", v>> : v \in Algorithms}
    \cup {<<"kernel_sigma", v>> : v \in KernelSigmas}

\* latent matrices a Newton step can produce: margin m for the labelled class
FVals(y) ==
    {[i \in DOMAIN y |-> [c \in Classes |-> m * y[i][c]]] : m \in 0..MaxF}

LmlVals == 0..MaxLml

\* correction vectors a linear solve can return
EVecs == {[i \in Samples |-> v] : v \in 1..MaxE}

VARIABLES
    params,     \* the constructor's / set_params' hyperparameters
    X_, y_,     \* self._X, self._y
    K_, f_, pi_, e_, lml_,   \* self.K_, self.f_, self.pi_, self._e, self.lml_
    pc, iter, lmls,          \* _fit: position, iter, lmls
    outcome,    \* how the latest fit call ended
    steps,      \* Newton steps completed by the latest fit call
    lastLml,    \* the approximate LML of its last completed step
    fits, sets, \* fit and set_params calls so far
    rng,        \* self.rng
    ppc,        \* each caller of predict_proba / predict: its position
    batch,      \* its argument X
    out,        \* the list of per-row predictions it has built so far
    ret,        \* the value its call returned
    mixed,      \* another call touched self.rng while its call was running
    calls       \* predict_proba / predict calls so far

fitVars == <<params, X_, y_, K_, f_, pi_, e_, lml_, pc, iter, lmls,
             outcome, steps, lastLml, fits, sets>>
predVars == <<rng, ppc, batch, out, ret, mixed, calls>>
vars == <<fitVars, predVars>>

fitted == <<K_, f_, pi_, e_, lml_>>

Callers == {1, 2}

(* -------------------------------- fit ---------------------------------- *)
\* self._kernel(X, X) + sigma_n ** 2 * np.eye(n)
Covariance(sigma, sigma_n, X) ==
    [i \in DOMAIN X |-> [j \in DOMAIN X |->
        KernelVal(sigma, X[i], X[j]) + (IF i = j THEN sigma_n * sigma_n ELSE 0)]]

\* "construct covariance matrix if needed"
CovarianceAtFit(K, sigma, sigma_n, X) ==
    IF K = None THEN Some(Covariance(sigma, sigma_n, X)) ELSE K

Zeros(y) == [i \in DOMAIN y |-> [c \in Classes |-> 0]]

MaxIterReachedLate(it, max_iter) == it > max_iter + 1

\* iter > self.max_iter
MaxIterReached(it, max_iter) == it > max_iter

ConvergedWithin(ls, tol) ==
    /\ Len(ls) >= 2
    /\ Abs(ls[Len(ls)] - ls[Len(ls) - 1]) <= tol

\* len(lmls) >= 2 and np.abs(lmls[-1] - lmls[-2]) < self.tol
Converged(ls, tol) ==
    /\ Len(ls) >= 2
    /\ Abs(ls[Len(ls)] - ls[Len(ls) - 1]) < tol

Column(m, c) == [i \in DOMAIN m |-> m[i][c]]

\* the lists [e_c : c in 0..C-1] the linear solves can return for pi: e_c
\* is a function of K_, the algorithm and column c of pi alone
ESolutions(pi) ==
    {e \in [Classes -> EVecs] :
        \A c, d \in Classes : Column(pi, c) = Column(pi, d) => e[c] = e[d]}

NoCalls ==
    /\ rng = None
    /\ ppc = [t \in Callers |-> "idle"]
    /\ batch = [t \in Callers |-> <<>>]
    /\ out = [t \in Callers |-> <<>>]
    /\ ret = [t \in Callers |-> None]
    /\ mixed = [t \in Callers |-> FALSE]
    /\ calls = 0

Init ==
    /\ params \in ParamSpace
    /\ X_ = None /\ y_ = None
    /\ K_ = None /\ f_ = None /\ pi_ = None /\ e_ = None /\ lml_ = None
    /\ pc = "idle" /\ iter = 0 /\ lmls = <<>>
    /\ outcome = "none" /\ steps = 0 /\ lastLml = None
    /\ fits = 0 /\ sets = 0
    /\ NoCalls

\* set_params(key=value)
SetParams(key, value) ==
    /\ pc = "idle"
    /\ sets < MaxSets
    /\ params[key] # value
    /\ params' = [params EXCEPT ![key] = value]
    /\ sets' = sets + 1
    /\ UNCHANGED <<X_, y_, K_, f_, pi_, e_, lml_, pc, iter, lmls,
                   outcome, steps, lastLml, fits, predVars>>

\* fit(X, y) up to the Newton loop
FitEntry(X, y) ==
    /\ pc = "idle"
    /\ fits < MaxFits
    /\ fits' = fits + 1
    /\ X_' = Some(X) /\ y_' = Some(y)
    /\ K_' = CovarianceAtFit(K_, params.kernel_sigma, params.sigma_n, X)
    /\ f_' = Some(Zeros(y))
    /\ lmls' = <<>> /\ iter' = 0
    /\ pc' = "loop"
    /\ outcome' = "running" /\ steps' = 0 /\ lastLml' = None
    /\ UNCHANGED <<params, pi_, e_, lml_, sets, predVars>>

\* the loop's exit by the iteration cap: print 'convergence is not reached'; return
FitMaxIter ==
    /\ pc = "loop"
    /\ MaxIterReached(iter + 1, params.max_iter)
    /\ pc' = "idle" /\ outcome' = "maxiter"
    /\ iter' = 0 /\ lmls' = <<>>
    /\ UNCHANGED <<params, X_, y_, K_, f_, pi_, e_, lml_, steps, lastLml, fits, sets,
                   predVars>>

\* one pass of the loop's body with an algorithm that is neither 'exact' nor
\* 'cg': e_c is never bound and self._e.append(e_c) raises
NewtonStepUnbound ==
    /\ pc = "loop"
    /\ ~MaxIterReached(iter + 1, params.max_iter)
    /\ params.algorithm \notin {"exact", "cg"}
    /\ pi_' = Some(Softmax(f_[1]))
    /\ e_' = Some(<<>>)
    /\ pc' = "idle" /\ outcome' = "raised"
    /\ iter' = 0 /\ lmls' = <<>>
    /\ UNCHANGED <<params, X_, y_, K_, f_, lml_, steps, lastLml, fits, sets, predVars>>

\* one pass of the loop's body, and the convergence test that ends it
NewtonStep ==
    /\ pc = "loop"
    /\ ~MaxIterReached(iter + 1, params.max_iter)
    /\ params.algorithm \in {"exact", "cg"}
    /\ pi_' = Some(Softmax(f_[1]))
    /\ \E e \in ESolutions(pi_'[1]), f \in FVals(y_[1]), lml \in LmlVals :
          /\ e_' = Some(e)
          /\ f_' = Some(f)
          /\ steps' = steps + 1
          /\ lastLml' = Some(lml)
          /\ IF Converged(Append(lmls, lml), params.tol)
             THEN /\ lml_' = Some(lml)
                  /\ pc' = "idle" /\ outcome' = "converged"
                  /\ iter' = 0 /\ lmls' = <<>>
             ELSE /\ lml_' = lml_
                  /\ pc' = "loop" /\ outcome' = outcome
                  /\ iter' = iter + 1 /\ lmls' = Append(lmls, lml)
    /\ UNCHANGED <<params, X_, y_, K_, fits, sets, predVars>>

Next ==
    \/ \E s \in Settings : SetParams(s[1], s[2])
    \/ \E X \in TrainingSets, y \in LabelSets : FitEntry(X, y)
    \/ FitMaxIter
    \/ NewtonStepUnbound
    \/ NewtonStep

Spec == Init /\ [][Next]_vars

\* the interpreter keeps running a loop it has entered
LoopStep == FitMaxIter \/ NewtonStepUnbound \/ NewtonStep
FairSpec == Spec /\ WF_vars(LoopStep)

(* --------------------------- claims about fit -------------------------- *)
\* this step is the return of a fit call that raised nothing
Returns == pc = "loop" /\ pc' = "idle" /\ outcome' \in {"converged", "maxiter"}

\* C1 (as stated): when fit(X, y) returns, the stored K is kernel(X, X) plus
\* sigma_n^2 on the diagonal for that call's X and the configuration in force
\* at that call, never a matrix left over from an earlier fit.
C1_KFreshAtEveryFit ==
    [][Returns =>
        K_' = Some(Covariance(params'.kernel_sigma, params'.sigma_n, X_'[1]))]_vars

\* C2 (as stated): whenever fit returns, Converged or MaxIterExceeded, lml_ is
\* the approximate LML computed in the last Newton iteration of that call,
\* never the unset initial value nor an earlier fit's value.
C2_LmlStoredOnEveryReturn ==
    [][Returns => (lastLml' # None /\ lml_' = lastLml')]_vars

BadConfig(p) == p.algorithm \notin {"exact", "cg"} \/ p.sigma_n < 0

\* C3 (as stated): under an algorithm other than 'exact' / 'cg' or a negative
\* sigma_n, fit is rejected with a configuration error at entry: no step of
\* the program creates or modifies K_, f_, pi_, _e, lml_, none enters the
\* Newton loop, and a started fit ends at once as InvalidConfiguration.
C3_BadConfigRejectedAtEntry ==
    [][BadConfig(params) =>
        /\ UNCHANGED fitted
        /\ pc' = "idle"
        /\ (fits' # fits => outcome' = "invalid_configuration")]_vars

\* C4: for every max_iter > 0 a fit call terminates; it never completes more
\* than max_iter Newton steps; and its return by the iteration cap comes
\* after exactly max_iter steps, none of which met the convergence test, is
\* a normal return (nothing raised), and leaves f_, pi_ and the list _e (one
\* e_c per class) as the last step produced them.
C4_TerminatesWithinMaxIter ==
    /\ [][/\ (steps' = steps + 1 => steps' <= params.max_iter)
          /\ (pc = "loop" /\ outcome' = "maxiter" =>
                /\ steps' = params.max_iter /\ steps' = steps
                /\ pc' = "idle"
                /\ UNCHANGED <<f_, pi_, e_>>
                /\ pi_ # None /\ DOMAIN e_[1] = Classes)
          /\ (pc = "loop" /\ pc' = "idle" /\ params.algorithm \in {"exact", "cg"}
                /\ outcome' # "converged" =>
                    outcome' = "maxiter" /\ steps' = params.max_iter)]_vars
    /\ (pc = "loop" ~> pc = "idle")

\* C4's case: a fit with max_iter = MaxIter has returned by the cap after
\* MaxIter steps
C4_Witness ==
    /\ pc = "idle" /\ outcome = "maxiter"
    /\ params.max_iter = MaxIter /\ steps = MaxIter

\* C8 (as stated): when fit returns, the stored pi is the row-wise softmax of
\* the stored final f.
C8_PiIsSoftmaxOfFinalF ==
    (pc = "idle" /\ outcome \in {"converged", "maxiter"}) => pi_ = Some(Softmax(f_[1]))

\* C9: a Newton step t ends the loop as Converged exactly when t >= 2 and
\* |lml_t - lml_{t-1}| < tol, whatever the earlier LML values were; so no fit
\* converges after its first step; a fit becomes Converged only by such a
\* step, which stores lml_t in lml_ and returns; and a converged call
\* performs no further Newton step.
C9_ConvergesOnTwoLatestLml ==
    [][/\ (steps' = steps + 1 =>
             ((outcome' = "converged") <=>
                 (steps' >= 2 /\ Abs(lastLml'[1] - lmls[Len(lmls)]) < params.tol)))
       /\ (outcome' = "converged" /\ outcome # "converged" =>
             /\ steps' = steps + 1 /\ steps' >= 2
             /\ pc' = "idle" /\ lml_' = lastLml')
       /\ (outcome = "converged" => steps' = steps \/ steps' = 0)]_vars

\* C9's case: a fit has converged at its third step, whose LML equals the
\* second's and differs from the first's
C9_Witness ==
    /\ outcome = "converged" /\ steps = 3 /\ pc = "idle"
    /\ lml_ = lastLml

(* ------------------------------ predict -------------------------------- *)
\* query points
Queries == {0, 3}

RECURSIVE SeqsUpTo(_, _)
\* the sequences over S of length 1..n
SeqsUpTo(S, n) ==
    IF n = 0 THEN {}
    ELSE LET shorter == SeqsUpTo(S, n - 1)
         IN  {<<x>> : x \in S} \cup shorter
             \cup {Append(q, x) : q \in {r \in shorter : Len(r) = n - 1}, x \in S}

Batches == SeqsUpTo(Queries, MaxBatch)

\* the seeds RNG(None) can take from the operating system's entropy
EntropySeeds == {1, 2}

\* RNG(seed): a generator at the start of the stream its seed determines
RNG(seed, entropy) ==
    [seed |-> IF seed = None THEN entropy ELSE seed[1], pos |-> 0]

\* a generator created once and kept by the later calls
RngKept(old, seed, entropy) == IF old = None THEN RNG(seed, entropy) ELSE old

\* a generator created without the configured seed
RngUnseeded(old, seed, entropy) == RNG(None, entropy)

\* self.rng = RNG(self.random_seed)
RngAtEntry(old, seed, entropy) == RNG(seed, entropy)

\* a draw that leaves the generator where it was
RngNotAdvanced(g) == g

\* the generator after one multivariate_normal(mu, Sigma, size=n_samples)
RngAfterDraw(g) == [g EXCEPT !.pos = g.pos + 1]

\* a . b for two vectors of rationals over the samples
Dot(a, b) == RSum([i \in Samples |-> RMul(a[i], b[i])])

\* self._kernel(X, self._X)[row of x_star]
KStar(sigma, x_star, X) == [i \in DOMAIN X |-> RInt(KernelVal(sigma, x_star, X[i]))]

\* mu = (self._y - self.pi_).T.dot(k_star)
PredictiveMean(y, pi, k_star) ==
    [c \in Classes |-> Dot([i \in Samples |-> RSub(RInt(y[i][c]), pi[i][c])], k_star)]

\* np.maximum(sum(self._e), 1e-8 * np.ones_like(self._e[0]))
SumEFloored(e) ==
    [i \in Samples |->
        RMax(RSum([c \in Classes |-> RInt(e[c][i])]), Rat(1, FloorDen))]

\* the rows of Sigma: sigma_row = [c.dot(k_star)] * C, and
\* sigma_row[c_] += k_star_star - b.dot(k_star)
PredictiveSigma(e, k_star, k_star_star) ==
    LET floored == SumEFloored(e) IN
    [c \in Classes |->
        LET b == [i \in Samples |-> RMul(RInt(e[c][i]), k_star[i])]
            t2 == [i \in Samples |-> RDiv(b[i], floored[i])]
            cc == [i \in Samples |-> RMul(RInt(e[c][i]), t2[i])]
            off == Dot(cc, k_star)
        IN  [d \in Classes |->
                IF d = c THEN RAdd(off, RSub(k_star_star, Dot(b, k_star))) ELSE off]]

\* _predict_k_star: the mean over the generator's n_samples draws from
\* N(mu, Sigma) of their softmax
PredictKStar(x_star, g) ==
    LET k_star == KStar(params.kernel_sigma, x_star, X_[1])
        k_star_star == RInt(KernelVal(params.kernel_sigma, x_star, x_star))
    IN  [mu |-> PredictiveMean(y_[1], pi_[1], k_star),
         Sigma |-> PredictiveSigma(e_[1], k_star, k_star_star),
         seed |-> g.seed, pos |-> g.pos]

\* _predict(X): one_hot_decision_function(self.predict_proba(X))
PredictOf(pi_pred) == [one_hot_decision_of |-> pi_pred]

\* the callers other than t that are inside the list comprehension
Running(t) == {u \in Callers \ {t} : ppc[u] = "rows"}

\* predict_proba(X), called directly or by _predict(X), up to the list
\* comprehension
PredictEntry(t, X) ==
    /\ ppc[t] = "idle"
    /\ calls < MaxCalls
    /\ calls' = calls + 1
    /\ \E entropy \in EntropySeeds :
          rng' = RngAtEntry(rng, params.random_seed, entropy)
    /\ ppc' = [ppc EXCEPT ![t] = "rows"]
    /\ batch' = [batch EXCEPT ![t] = X]
    /\ out' = [out EXCEPT ![t] = <<>>]
    /\ ret' = [ret EXCEPT ![t] = None]
    /\ mixed' = [u \in Callers |-> IF u = t THEN FALSE ELSE mixed[u] \/ u \in Running(t)]
    /\ UNCHANGED fitVars

\* one element of the list comprehension, and after the last one the return
PredictRow(t) ==
    /\ ppc[t] = "rows"
    /\ LET i == Len(out[t]) + 1
           o == Append(out[t], PredictKStar(batch[t][i], rng))
       IN  /\ rng' = RngAfterDraw(rng)
           /\ out' = [out EXCEPT ![t] = o]
           /\ IF i = Len(batch[t])
              THEN /\ ppc' = [ppc EXCEPT ![t] = "done"]
                   /\ ret' = [ret EXCEPT ![t] = Some(o)]
              ELSE UNCHANGED <<ppc, ret>>
    /\ mixed' = [u \in Callers |-> mixed[u] \/ u \in Running(t)]
    /\ UNCHANGED <<fitVars, batch, calls>>

\* the caller takes the returned value and is free to call again
PredictDone(t) ==
    /\ ppc[t] = "done"
    /\ ppc' = [ppc EXCEPT ![t] = "idle"]
    /\ batch' = [batch EXCEPT ![t] = <<>>]
    /\ out' = [out EXCEPT ![t] = <<>>]
    /\ ret' = [ret EXCEPT ![t] = None]
    /\ mixed' = [mixed EXCEPT ![t] = FALSE]
    /\ UNCHANGED <<fitVars, rng, calls>>

\* a model whose fit(X, y) has returned after MaxIter Newton steps
InitPredict ==
    /\ params \in [kernel_sigma : KernelSigmas, sigma_n : {0}, max_iter : {MaxIter},
                   tol : Tols, algorithm : {"exact"}, random_seed : Seeds]
    /\ \E X \in {<<0, 1>>}, y \in LabelSets :
          /\ X_ = Some(X) /\ y_ = Some(y)
          /\ K_ = Some(Covariance(params.kernel_sigma, params.sigma_n, X))
          /\ \E f0 \in FVals(y) :
                /\ pi_ = Some(Softmax(f0))
                /\ e_ \in {Some(e) : e \in ESolutions(Softmax(f0))}
          /\ f_ = Some(Zeros(y))
    /\ lml_ = None
    /\ pc = "idle" /\ iter = 0 /\ lmls = <<>>
    /\ outcome = "maxiter" /\ steps = MaxIter /\ lastLml = Some(MaxLml)
    /\ fits = 1 /\ sets = 0
    /\ NoCalls

NextPredict ==
    \/ \E t \in Callers, X \in Batches : PredictEntry(t, X)
    \/ \E t \in Callers : PredictRow(t)
    \/ \E t \in Callers : PredictDone(t)

SpecPredict == InitPredict /\ [][NextPredict]_vars

(* ------------------------ claims about predict -------------------------- *)
Seeded == params.random_seed # None

\* the call of caller t has returned and no other call ran during it
ReturnedAlone(t) == ret[t] # None /\ ~mixed[t]

\* what a seeded call computes for x_star as its i-th row when nothing else
\* touches the generator: the draws at position i - 1 of the seed's stream
RowAt(x_star, i) ==
    PredictKStar(x_star, [seed |-> params.random_seed[1], pos |-> i - 1])

\* the result of predict_proba(X) run alone
RunAlone(X) == [i \in 1..Len(X) |-> RowAt(X[i], i)]

C7_SeededCallsReproducible ==
    \A t, u \in Callers :
        (Seeded /\ ReturnedAlone(t) /\ ReturnedAlone(u) /\ batch[t] = batch[u]) =>
            /\ ret[t] = ret[u]
            /\ PredictOf(ret[t][1]) = PredictOf(ret[u][1])

\* C7's case: the first and the third call, with the same two-row query
\* matrix, have both returned
C7_Witness ==
    /\ Seeded /\ calls = 3
    /\ ReturnedAlone(1) /\ ReturnedAlone(2)
    /\ batch[1] = batch[2] /\ Len(batch[1]) = 2
    /\ ret[1] = ret[2]

\* C10 (as stated): the predictive covariance Sigma of every predicted row
\* is symmetric.
C10_SigmaSymmetric ==
    \A t \in Callers : \A i \in 1..Len(out[t]) : \A c, d \in Classes :
        out[t][i].Sigma[c][d] = out[t][i].Sigma[d][c]

====
